---- MODULE Spec2Model ----
(***************************************************************************)
(* Model of run.py, the driver that enumerates likeligrid invocations.     *)
(*                                                                         *)
(* Text is modelled at the level of characters: a line is a sequence of    *)
(* one-character strings, a text file is a sequence of lines (each with    *)
(* its terminating "\n", which the last line may lack).  A decoded JSON    *)
(* document is a function from its keys to its values.  The result of a    *)
(* call is a record that says whether the call returned (ok, val) or       *)
(* raised (err, the name of the Python exception class).                   *)
(***************************************************************************)
EXTENDS Integers, Sequences, FiniteSets, TLC

VARIABLES
    readIn,     \* content of the file handed to a reader called on its own
    readShape,  \* how readIn was built (what the file is meant to hold)
    readOut,    \* the reader called last and its result
    call,       \* the arguments main() passes to iter_args
    gen,        \* the generator object: its state and its frame
    yielded,    \* the jobs the consumer has received, in order
    trace,      \* for each job received, its (sweep value, file position, pair)
    reads,      \* log of the files opened, with the number of jobs received then
    raised,     \* log of the errors that left the generator, with their block
    outcome     \* how the consumer's last next() ended

readVars == <<readIn, readShape, readOut>>
genVars == <<call, gen, yielded, trace, reads, raised, outcome>>
vars == <<readIn, readShape, readOut, call, gen, yielded, trace, reads, raised,
          outcome>>

program == "likeligrid"

----------------------------------------------------------------------------
(* Bounds of the model.                                                    *)

MaxComments == 2    \* '#' lines before the header of a generated TSV file
MaxColumns == 3     \* pathway columns of a generated TSV header
MaxPathways == 3    \* entries of a generated JSON pathway array
MaxFiles == 2       \* input files on the command line
MaxSweep == 2       \* width of the widest sweep range
MaxRest == 2        \* passthrough arguments forwarded to every job

----------------------------------------------------------------------------
(* Results of calls and Python's exception hierarchy.                      *)

Ok(v) == [ok |-> TRUE, val |-> v, err |-> "none"]
Raise(e) == [ok |-> FALSE, val |-> -1, err |-> e]
RaisePair(e) == [ok |-> FALSE, val |-> <<>>, err |-> e]

\* issubclass(e, cls) for the built-in exception classes the code can raise
IsSubclass(e, cls) ==
    \/ e = cls
    \/ cls = "LookupError" /\ e \in {"IndexError", "KeyError"}
    \/ cls = "NameError" /\ e = "UnboundLocalError"
    \/ cls = "ValueError" /\ e = "JSONDecodeError"
    \/ cls = "OSError" /\ e = "FileNotFoundError"

----------------------------------------------------------------------------
(* str methods used by count_pathways_tsv.                                 *)

startswith(line, c) == Len(line) >= 1 /\ line[1] = c

IsSpace(c) == c \in {" ", "\t", "\n", "\r"}

RECURSIVE rstrip(_)
rstrip(line) ==
    IF line = <<>> THEN <<>>
    ELSE IF IsSpace(line[Len(line)]) THEN rstrip(SubSeq(line, 1, Len(line) - 1))
    ELSE line

RECURSIVE splitAcc(_, _, _, _)
splitAcc(rest, sep, cur, out) ==
    IF rest = <<>> THEN Append(out, cur)
    ELSE IF Head(rest) = sep THEN splitAcc(Tail(rest), sep, <<>>, Append(out, cur))
    ELSE splitAcc(Tail(rest), sep, Append(cur, Head(rest)), out)

\* str.split(sep) with an explicit separator: always at least one field
split(line, sep) == splitAcc(line, sep, <<>>, <<>>)

contains(field, c) == \E i \in 1..Len(field) : field[i] = c

\* list.index(x): the first position (zero-based) of x, 0 - 1 standing for ValueError
index(p, x) ==
    IF \E i \in 1..Len(p) : p[i] = x
    THEN (CHOOSE i \in 1..Len(p) : p[i] = x /\ \A h \in 1..(i - 1) : p[h] # x) - 1
    ELSE -1

----------------------------------------------------------------------------
(* The readers.                                                            *)

\* the loop of lines 38-42: the position of the first line that does not
\* start with '#', 0 when the loop ends without binding header
FirstNonComment(lines) ==
    IF \E i \in 1..Len(lines) : ~startswith(lines[i], "#")
    THEN CHOOSE i \in 1..Len(lines) :
            /\ ~startswith(lines[i], "#")
            /\ \A h \in 1..(i - 1) : startswith(lines[h], "#")
    ELSE 0

count_pathways_tsv(content) ==
    IF content.kind = "missing" THEN Raise("FileNotFoundError")
    ELSE LET at == FirstNonComment(content.lines) IN
         IF at = 0 THEN Raise("UnboundLocalError")            \* line 43, header unbound
         ELSE LET header == split(rstrip(content.lines[at]), "\t")
                  popped == Tail(header)                       \* header.pop(0)
              IN  IF popped = <<>> THEN Raise("IndexError")    \* line 44, header[-1]
                  ELSE IF contains(popped[Len(popped)], ":")
                       THEN Ok(Len(popped) - 1)                \* header.pop(-1)
                       ELSE Ok(Len(popped))

count_pathways_json(content) ==
    IF content.kind = "missing" THEN Raise("FileNotFoundError")
    ELSE IF "pathway" \notin DOMAIN content.doc THEN Raise("KeyError")
    ELSE Ok(Len(content.doc["pathway"]))

\* Mutant: the pair is looked up as (Damage, Cycle).
tp53_pleiotropic_pair_swapped(content) ==
    IF content.kind = "missing" THEN RaisePair("FileNotFoundError")
    ELSE IF "pathway" \notin DOMAIN content.doc THEN RaisePair("KeyError")
    ELSE LET p == content.doc["pathway"] IN
         IF index(p, "Damage") < 0 \/ index(p, "Cycle") < 0 THEN RaisePair("ValueError")
         ELSE Ok(<<index(p, "Damage"), index(p, "Cycle")>>)

tp53_pleiotropic_pair(content) ==
    IF content.kind = "missing" THEN RaisePair("FileNotFoundError")
    ELSE IF "pathway" \notin DOMAIN content.doc THEN RaisePair("KeyError")
    ELSE LET p == content.doc["pathway"] IN
         IF index(p, "Cycle") < 0 THEN RaisePair("ValueError")
         ELSE IF index(p, "Damage") < 0 THEN RaisePair("ValueError")
         ELSE Ok(<<index(p, "Cycle"), index(p, "Damage")>>)

----------------------------------------------------------------------------
(* Input files.                                                            *)

RECURSIVE SeqsUpTo(_, _)
SeqsUpTo(S, n) ==
    IF n = 0 THEN {<<>>}
    ELSE LET shorter == SeqsUpTo(S, n - 1) IN
         shorter \cup {Append(q, x) : q \in shorter, x \in S}

RECURSIVE Join(_, _)
Join(fields, sep) ==
    IF fields = <<>> THEN <<>>
    ELSE IF Len(fields) = 1 THEN fields[1]
    ELSE fields[1] \o <<sep>> \o Join(Tail(fields), sep)

LoglikColumn == <<"l", "k">>
PathwayColumns == {<<"A">>, <<"B", "c">>}
AnnotationColumn == <<"A", ":", "B">>
CommentLine == <<"#", "l", "\t", "A", "\n">>
DataLine == <<"-", "\t", "1", "\n">>

\* A TSV file: ncomment comment lines, then (when header is TRUE) the header
\* made of the log-likelihood column, the pathway columns and, when annotated
\* is TRUE, the annotation column, then one line of data.
MakeTsv(ncomment, header, columns, annotated, newline) ==
    [kind |-> "tsv",
     lines |-> [i \in 1..ncomment |-> CommentLine]
               \o (IF header
                   THEN << Join(<<LoglikColumn>> \o columns
                                \o (IF annotated THEN <<AnnotationColumn>> ELSE <<>>),
                                "\t")
                           \o (IF newline THEN <<"\n">> ELSE <<>>) >>
                       \o (IF newline THEN <<DataLine>> ELSE <<>>)
                   ELSE <<>>)]

TsvShapes ==
    [fmt : {"tsv"}, ncomment : 0..MaxComments, header : {TRUE},
     columns : SeqsUpTo(PathwayColumns, MaxColumns), annotated : BOOLEAN,
     newline : BOOLEAN]
    \cup
    [fmt : {"tsv"}, ncomment : 0..MaxComments, header : {FALSE},
     columns : {<<>>}, annotated : {FALSE}, newline : {TRUE}]

PathwayNames == {"Cycle", "Damage", "Growth"}

JsonShapes ==
    [fmt : {"json"}, pathway : SeqsUpTo(PathwayNames, MaxPathways), keyed : {TRUE}]
    \cup [fmt : {"json"}, pathway : {<<>>}, keyed : {FALSE}]

MakeJson(pathway, keyed) ==
    [kind |-> "json",
     doc |-> IF keyed THEN [pathway |-> pathway] ELSE [genotype |-> <<>>]]

Build(shape) ==
    IF shape.fmt = "tsv"
    THEN MakeTsv(shape.ncomment, shape.header, shape.columns, shape.annotated,
                 shape.newline)
    ELSE IF shape.fmt = "json" THEN MakeJson(shape.pathway, shape.keyed)
    ELSE [kind |-> "missing"]

NotCalled == [fn |-> "none", res |-> Ok(0)]

\* The files on disk in a run of the driver, by name.
Catalogue ==
    [name \in {"t0.tsv.gz", "t1.tsv.gz", "t3a.tsv.gz", "tnone.tsv.gz",
               "j0.json.gz", "j2.json.gz", "j3.json.gz", "gone.gz"} |->
        CASE name = "t0.tsv.gz" ->
                [fmt |-> "tsv", ncomment |-> 0, header |-> TRUE, columns |-> <<>>,
                 annotated |-> FALSE, newline |-> TRUE]
          [] name = "t1.tsv.gz" ->
                [fmt |-> "tsv", ncomment |-> 0, header |-> TRUE,
                 columns |-> << <<"A">> >>, annotated |-> FALSE, newline |-> FALSE]
          [] name = "t3a.tsv.gz" ->
                [fmt |-> "tsv", ncomment |-> 1, header |-> TRUE,
                 columns |-> << <<"A">>, <<"B", "c">>, <<"A">> >>,
                 annotated |-> TRUE, newline |-> TRUE]
          [] name = "tnone.tsv.gz" ->
                [fmt |-> "tsv", ncomment |-> 1, header |-> FALSE, columns |-> <<>>,
                 annotated |-> FALSE, newline |-> TRUE]
          [] name = "j0.json.gz" ->
                [fmt |-> "json", pathway |-> <<>>, keyed |-> TRUE]
          [] name = "j2.json.gz" ->
                [fmt |-> "json", pathway |-> <<"Damage", "Cycle">>, keyed |-> TRUE]
          [] name = "j3.json.gz" ->
                [fmt |-> "json", pathway |-> <<"Cycle", "Growth", "Damage">>,
                 keyed |-> TRUE]
          [] OTHER -> [fmt |-> "missing"]]

FileNames == DOMAIN Catalogue
Disk(name) == Build(Catalogue[name])

\* no call of iter_args yet, and no generator
IdleCall ==
    [infiles |-> <<>>, begin |-> 0, end |-> 0, concurrency |-> 1, rest |-> <<>>,
     epistasis |-> FALSE, tp53 |-> FALSE]
IdleGen == [state |-> "absent", si |-> 0, fi |-> 0, pairs |-> <<>>]

----------------------------------------------------------------------------
(* The readers called on their own, on every file of the bounded shapes.   *)

InitRead ==
    /\ readShape \in TsvShapes \cup JsonShapes \cup {[fmt |-> "missing"]}
    /\ readIn = Build(readShape)
    /\ readOut = NotCalled
    /\ call = IdleCall
    /\ gen = IdleGen
    /\ yielded = <<>>
    /\ trace = <<>>
    /\ reads = <<>>
    /\ raised = <<>>
    /\ outcome = "none"

CallCountPathwaysTsv ==
    /\ readIn.kind \in {"tsv", "missing"}
    /\ readOut' = [fn |-> "count_pathways_tsv", res |-> count_pathways_tsv(readIn)]
    /\ UNCHANGED <<readIn, readShape, genVars>>

CallCountPathwaysJson ==
    /\ readIn.kind \in {"json", "missing"}
    /\ readOut' = [fn |-> "count_pathways_json", res |-> count_pathways_json(readIn)]
    /\ UNCHANGED <<readIn, readShape, genVars>>

CallTp53PleiotropicPair ==
    /\ readIn.kind \in {"json", "missing"}
    /\ readOut' = [fn |-> "tp53_pleiotropic_pair", res |-> tp53_pleiotropic_pair(readIn)]
    /\ UNCHANGED <<readIn, readShape, genVars>>

NextRead == CallCountPathwaysTsv \/ CallCountPathwaysJson \/ CallTp53PleiotropicPair

SpecRead == InitRead /\ [][NextRead]_vars

----------------------------------------------------------------------------
(* What the input files hold, read off the way they were built.            *)

HasPathways(shape) ==
    \/ shape.fmt = "tsv" /\ shape.header
    \/ shape.fmt = "json" /\ shape.keyed

\* the number of pathways of a file, 0 for a file that defines none
pathwayCount(shape) ==
    IF ~HasPathways(shape) THEN 0
    ELSE IF shape.fmt = "tsv" THEN Len(shape.columns)
    ELSE Len(shape.pathway)

\* name stands at the zero-based position i of p and nowhere before it
FirstAt(p, name, i) ==
    /\ i \in 0..(Len(p) - 1)
    /\ p[i + 1] = name
    /\ \A h \in 1..i : p[h] # name

Present(p, name) == \E i \in 1..Len(p) : p[i] = name

----------------------------------------------------------------------------
(* Claims about the readers, checked under SpecRead.                       *)

\* C5: for every TSV file whose first non-comment line is a header made of
\* the log-likelihood column followed by k pathway columns (k >= 0),
\* count_pathways_tsv returns k, with and without a trailing annotation
\* column, whatever the number of leading '#' lines.
C5_CountsPathwayColumns ==
    (/\ readOut.fn = "count_pathways_tsv"
     /\ readShape.fmt = "tsv"
     /\ readShape.header)
    => readOut.res = Ok(Len(readShape.columns))

C7_MalformedInputError ==
    (/\ readOut.fn = "count_pathways_tsv"
     /\ readShape.fmt = "tsv"
     /\ ~readShape.header)
    => ~readOut.res.ok /\ IsSubclass(readOut.res.err, "MalformedInputError")

----------------------------------------------------------------------------
(* iter_args.                                                              *)

\* Mutant: the end of the range is taken as inclusive.
RangeLen_inclusive(c) == IF c.end >= c.begin THEN c.end - c.begin + 1 ELSE 0

\* len(range(begin, end))
RangeLen(c) == IF c.end > c.begin THEN c.end - c.begin ELSE 0

\* Mutant: the range is walked from its end.
RangeAt_descending(c, si) == c.end - 1 - si

\* range(begin, end)[si], the value wtl.options.sequential visits at step si
RangeAt(c, si) == c.begin + si

\* wtl.options.sequential over the single axis 's' visits the values of
\* range_s in order; make_args turns one value into the flags of a job.
\* wtl.options is a library outside this repository: make_args is taken to
\* give one flag token per axis value, and the token's spelling is the
\* library's.
make_args(s) == << "--s=" \o ToString(s) >>

RECURSIVE PairsFrom(_, _, _)
PairsFrom(i, j, n) ==
    IF i >= n - 1 THEN <<>>
    ELSE IF j >= n THEN PairsFrom(i + 1, i + 2, n)
    ELSE << <<i, j>> >> \o PairsFrom(i, j + 1, n)

\* Mutant: the second index starts at the first, so (i, i) is produced too.
combinations_with_self(n) == PairsFrom(0, 0, n)

\* list(itertools.combinations(range(n), 2))
combinations(n) == PairsFrom(0, 1, n)

const(c) == <<program, "-j" \o ToString(c.concurrency)>> \o c.rest

PairFlag(x) == "-e " \o ToString(x[1]) \o " " \o ToString(x[2])

\* Mutant: the pair flag is appended after the swept flags.
Job_flag_after_args(c, x, s, f) ==
    const(c) \o make_args(s) \o (IF x = <<>> THEN <<>> ELSE <<PairFlag(x)>>) \o <<f>>

\* the list yielded at lines 27, 30 and 32 (x is <<>> at line 32)
Job(c, x, s, f) ==
    const(c) \o (IF x = <<>> THEN <<>> ELSE <<PairFlag(x)>>) \o make_args(s) \o <<f>>

\* line 22: '-g' in const
TsvSource(c) == \E i \in 1..Len(const(c)) : const(c)[i] = "-g"

\* lines 22-25: the reader epistasis mode calls
CountPathways(c, f) ==
    IF TsvSource(c) THEN count_pathways_tsv(Disk(f)) ELSE count_pathways_json(Disk(f))

ReadEvent(c, si, fi, received) ==
    [s |-> RangeAt(c, si), pos |-> fi, file |-> c.infiles[fi], received |-> received]

Yield(si, fi, pairs, x, rd) ==
    [kind |-> "yield", si |-> si, fi |-> fi, pairs |-> pairs, x |-> x, rd |-> rd,
     err |-> "none"]

\* The body of iter_args run from the top of the block of sweep position si
\* and file position fi up to its next yield, its return or the error that
\* leaves it; rd collects the files opened on the way and received is the
\* number of jobs the consumer holds.
RECURSIVE RunFrom(_, _, _, _, _)
RunFrom(c, si, fi, rd, received) ==
    IF si >= RangeLen(c)
    THEN [kind |-> "return", si |-> si, fi |-> fi, pairs |-> <<>>, x |-> <<>>,
          rd |-> rd, err |-> "none"]
    ELSE IF fi > Len(c.infiles) THEN RunFrom(c, si + 1, 1, rd, received)
    ELSE IF c.epistasis
    THEN LET npath == CountPathways(c, c.infiles[fi])
             rd1 == Append(rd, ReadEvent(c, si, fi, received))
         IN  IF ~npath.ok
             THEN [kind |-> "raise", si |-> si, fi |-> fi, pairs |-> <<>>, x |-> <<>>,
                   rd |-> rd1, err |-> npath.err]
             ELSE LET all == combinations(npath.val) IN
                  IF all = <<>> THEN RunFrom(c, si, fi + 1, rd1, received)
                  ELSE Yield(si, fi, Tail(all), Head(all), rd1)
    ELSE IF c.tp53
    THEN LET pair == tp53_pleiotropic_pair(Disk(c.infiles[fi]))
             rd1 == Append(rd, ReadEvent(c, si, fi, received))
         IN  IF ~pair.ok
             THEN [kind |-> "raise", si |-> si, fi |-> fi, pairs |-> <<>>, x |-> <<>>,
                   rd |-> rd1, err |-> pair.err]
             ELSE Yield(si, fi, <<>>, pair.val, rd1)
    ELSE Yield(si, fi, <<>>, <<>>, rd)

\* Mutant: the files of a sweep value are opened one block ahead, so the
\* file after the one being yielded from is read before it is asked for.
RunAhead(c, g, received) ==
    LET r == IF g.state = "created" THEN RunFrom(c, 0, 1, <<>>, received)
             ELSE IF g.pairs # <<>>
             THEN Yield(g.si, g.fi, Tail(g.pairs), Head(g.pairs), <<>>)
             ELSE RunFrom(c, g.si, g.fi + 1, <<>>, received)
    IN  IF r.kind = "yield" /\ r.fi < Len(c.infiles) /\ (c.epistasis \/ c.tp53)
        THEN [r EXCEPT !.rd = Append(r.rd, ReadEvent(c, r.si, r.fi + 1, received))]
        ELSE r

\* One next() on the generator: a fresh generator starts at the first block,
\* a suspended one resumes after its yield, inside the loop over the pairs.
Resume(c, g, received) ==
    IF g.state = "created" THEN RunFrom(c, 0, 1, <<>>, received)
    ELSE IF g.pairs # <<>>
    THEN Yield(g.si, g.fi, Tail(g.pairs), Head(g.pairs), <<>>)
    ELSE RunFrom(c, g.si, g.fi + 1, <<>>, received)

----------------------------------------------------------------------------
(* The driver and the consumer of the jobs.                                *)

DefaultBegin == 2

Concurrencies == {1, 3}
RestTokens == {"-g", "-v"}

\* The calls considered hand each reader files of the format it reads (or
\* files that do not exist): TSV for epistasis mode with '-g', JSON for
\* epistasis mode without it and for tp53 mode, any file when none is read.
Readable(epistasis, tp53, rest) ==
    LET fmts == IF epistasis
                THEN (IF \E i \in 1..Len(rest) : rest[i] = "-g" THEN {"tsv"} ELSE {"json"})
                ELSE IF tp53 THEN {"json"} ELSE {"tsv", "json"}
    IN  {f \in FileNames : Catalogue[f].fmt \in fmts \cup {"missing"}}

Calls ==
    {c \in [infiles : SeqsUpTo(FileNames, MaxFiles) \ {<<>>},
            begin : {DefaultBegin},
            end : (DefaultBegin - 1)..(DefaultBegin + MaxSweep),
            concurrency : Concurrencies,
            rest : SeqsUpTo(RestTokens, MaxRest),
            epistasis : BOOLEAN, tp53 : BOOLEAN] :
        \A i \in 1..Len(c.infiles) :
            c.infiles[i] \in Readable(c.epistasis, c.tp53, c.rest)}

Init ==
    /\ readShape = [fmt |-> "missing"]
    /\ readIn = Build(readShape)
    /\ readOut = NotCalled
    /\ call \in Calls
    /\ gen = IdleGen
    /\ yielded = <<>>
    /\ trace = <<>>
    /\ reads = <<>>
    /\ raised = <<>>
    /\ outcome = "none"

\* main, line 77: calling iter_args creates the generator and runs none of it
CreateGenerator ==
    /\ gen.state = "absent"
    /\ gen' = [gen EXCEPT !.state = "created"]
    /\ UNCHANGED <<readVars, call, yielded, trace, reads, raised, outcome>>

\* Mutant: an error leaves the generator suspended, so the next request goes
\* on with the file after the one that failed.
StateAfter_resumable(kind) == IF kind = "return" THEN "finished" ELSE "suspended"

\* a generator is suspended at a yield and finished by a return or an error
StateAfter(kind) == IF kind = "yield" THEN "suspended" ELSE "finished"

\* the consumer asks for the next job
NextJob ==
    /\ gen.state \in {"created", "suspended"}
    /\ LET r == Resume(call, gen, Len(yielded)) IN
        /\ reads' = reads \o r.rd
        /\ gen' = [state |-> StateAfter(r.kind), si |-> r.si, fi |-> r.fi,
                   pairs |-> r.pairs]
        /\ IF r.kind = "yield"
           THEN /\ yielded' = Append(yielded,
                                     Job(call, r.x, RangeAt(call, r.si), call.infiles[r.fi]))
                /\ trace' = Append(trace, [s |-> RangeAt(call, r.si), pos |-> r.fi,
                                           pair |-> r.x])
                /\ outcome' = "job"
                /\ UNCHANGED raised
           ELSE /\ outcome' = IF r.kind = "raise" THEN r.err ELSE "StopIteration"
                /\ raised' = IF r.kind = "raise"
                             THEN Append(raised, [s |-> RangeAt(call, r.si), pos |-> r.fi,
                                                  err |-> r.err])
                             ELSE raised
                /\ UNCHANGED <<yielded, trace>>
    /\ UNCHANGED <<readVars, call>>

\* next() on a generator that has returned or raised
NextAfterEnd ==
    /\ gen.state = "finished"
    /\ outcome' = "StopIteration"
    /\ UNCHANGED <<readVars, call, gen, yielded, trace, reads, raised>>

Next == CreateGenerator \/ NextJob \/ NextAfterEnd

Spec == Init /\ [][Next]_vars

----------------------------------------------------------------------------
(* The stream of jobs the call is meant to produce, from the input files.  *)

ShapeAt(c, pos) == Catalogue[c.infiles[pos]]

Choose2(k) == (k * (k - 1)) \div 2

\* jobs of one block: one per pair in epistasis mode, one otherwise
PairsPerFile(c, pos) ==
    IF c.epistasis THEN Choose2(pathwayCount(ShapeAt(c, pos))) ELSE 1

RECURSIVE JobsOfFiles(_, _)
JobsOfFiles(c, n) == IF n = 0 THEN 0 ELSE JobsOfFiles(c, n - 1) + PairsPerFile(c, n)

SweepSize(c) == IF c.begin < c.end THEN c.end - c.begin ELSE 0

\* jobs of the blocks that come before the block of sweep value s, position pos
JobsBefore(c, s, pos) ==
    (s - c.begin) * JobsOfFiles(c, Len(c.infiles)) + JobsOfFiles(c, pos - 1)

BlockBefore(s1, pos1, s2, pos2) == s1 < s2 \/ (s1 = s2 /\ pos1 < pos2)

PairBefore(x, y) ==
    /\ x # <<>>
    /\ y # <<>>
    /\ (x[1] < y[1] \/ (x[1] = y[1] /\ x[2] < y[2]))

PairMode(c) == c.epistasis \/ c.tp53

\* the pairs of trace that belong to the block of s and pos, in order
RECURSIVE PairsOfBlock(_, _, _)
PairsOfBlock(t, s, pos) ==
    IF t = <<>> THEN <<>>
    ELSE IF Head(t).s = s /\ Head(t).pos = pos
         THEN <<Head(t).pair>> \o PairsOfBlock(Tail(t), s, pos)
         ELSE PairsOfBlock(Tail(t), s, pos)

\* the generator has left the block of the zero-based sweep position si and pos
BlockDone(si, pos) ==
    /\ gen.state \in {"suspended", "finished"}
    /\ (si < gen.si \/ (si = gen.si /\ pos < gen.fi))

----------------------------------------------------------------------------
(* Claims about iter_args, checked under Spec.                             *)

\* C1: a full consumption of iter_args that raises no error yields exactly
\* |sweepRange| * (sum over the input files of n_f) jobs, n_f being
\* C(pathwayCount_f, 2) in epistasis mode and 1 otherwise; an empty sweep
\* range yields no job and no error.
C1_TotalLength ==
    /\ (gen.state = "finished" /\ raised = <<>>)
        => Len(yielded) = SweepSize(call) * JobsOfFiles(call, Len(call.infiles))
    /\ (call.begin >= call.end /\ outcome # "none")
        => gen.state = "finished" /\ raised = <<>> /\ yielded = <<>>

\* a run over two sweep values in epistasis mode has ended without error
\* after six jobs
C1_Witness ==
    /\ gen.state = "finished"
    /\ raised = <<>>
    /\ call.epistasis
    /\ call.end - call.begin = 2
    /\ Len(yielded) = 6

\* C2: of two jobs, the one yielded first has the smaller sweep value, or
\* the same sweep value and the earlier file position, or the same block and
\* the lexicographically smaller pair.
C2_Ordered ==
    \A a, b \in 1..Len(trace) :
        a < b =>
            \/ BlockBefore(trace[a].s, trace[a].pos, trace[b].s, trace[b].pos)
            \/ /\ trace[a].s = trace[b].s
               /\ trace[a].pos = trace[b].pos
               /\ PairBefore(trace[a].pair, trace[b].pair)

\* jobs of two pairs of one block and of two sweep values have been yielded
C2_Witness ==
    \E a, b \in 1..Len(trace) :
        /\ a < b
        /\ trace[a].s = trace[b].s
        /\ trace[a].pos = trace[b].pos
        /\ trace[a].pair # trace[b].pair
        /\ trace[1].s < trace[Len(trace)].s
        /\ trace[1].pos < trace[b].pos

\* C3: every job is [program, "-j" + concurrency] + passthrough arguments
\* + (one pair flag when a pair mode is on, none otherwise) + swept flags
\* + [file].
C3_TokenLayout ==
    \A n \in 1..Len(yielded) :
        LET job == yielded[n]
            nrest == Len(call.rest)
            nflag == IF PairMode(call) THEN 1 ELSE 0
            swept == make_args(trace[n].s)
        IN  /\ Len(job) = 2 + nrest + nflag + Len(swept) + 1
            /\ job[1] = "likeligrid"
            /\ job[2] = "-j" \o ToString(call.concurrency)
            /\ SubSeq(job, 3, 2 + nrest) = call.rest
            /\ PairMode(call) =>
                \E i, j \in 0..MaxPathways :
                    /\ trace[n].pair = <<i, j>>
                    /\ job[3 + nrest] = "-e " \o ToString(i) \o " " \o ToString(j)
            /\ ~PairMode(call) => trace[n].pair = <<>>
            /\ SubSeq(job, 3 + nrest + nflag, Len(job) - 1) = swept
            /\ job[Len(job)] = call.infiles[trace[n].pos]

\* a job with a pair flag and two different passthrough arguments has been
\* yielded
C3_Witness ==
    /\ Len(yielded) >= 1
    /\ PairMode(call)
    /\ Len(call.rest) = 2
    /\ call.rest[1] # call.rest[2]

\* C4: in epistasis mode the pairs emitted for a file with pathway count k
\* and one sweep value are the k(k-1)/2 pairs (i, j) with 0 <= i < j < k,
\* each once; for k < 2 the file gets no job and raises no error, and the
\* other files get their jobs.
C4_ExhaustivePairs ==
    call.epistasis =>
        /\ \A n \in 1..Len(raised) :
            LET shape == ShapeAt(call, raised[n].pos) IN
            ~(HasPathways(shape) /\ pathwayCount(shape) < 2)
        /\ \A si \in 0..(SweepSize(call) - 1), pos \in 1..Len(call.infiles) :
            BlockDone(si, pos) =>
                LET k == pathwayCount(ShapeAt(call, pos))
                    got == PairsOfBlock(trace, call.begin + si, pos)
                IN  /\ Len(got) = Choose2(k)
                    /\ \A i, j \in 0..(k - 1) :
                        i < j => Cardinality({n \in 1..Len(got) : got[n] = <<i, j>>}) = 1

\* C8: when the pathway count or the named pair of file f cannot be computed
\* at sweep value s, the jobs of the blocks before (s, f) have been yielded
\* and stay yielded, and no job of (s, f) or of a later block is yielded.
C8_AbortsAtFailure ==
    raised # <<>> =>
        /\ Len(raised) = 1
        /\ PairMode(call)
        /\ gen.state = "finished"
        /\ Len(yielded) = JobsBefore(call, raised[1].s, raised[1].pos)
        /\ \A n \in 1..Len(trace) :
            BlockBefore(trace[n].s, trace[n].pos, raised[1].s, raised[1].pos)

\* a file has failed after the jobs of the file before it were yielded, with
\* a sweep value left for both, and the consumer has asked for a job since
C8_Witness ==
    /\ raised # <<>>
    /\ Len(yielded) >= 2
    /\ raised[1].pos = 2
    /\ raised[1].s < call.end - 1
    /\ outcome = "StopIteration"

\* C9 as stated: every pair flag, in epistasis mode and in tp53 mode alike,
\* encodes (i, j) with 0 <= i < j < pathwayCount of the job's file.
C9_PairInOrder ==
    \A n \in 1..Len(yielded) :
        PairMode(call) =>
            LET k == pathwayCount(ShapeAt(call, trace[n].pos)) IN
            \E i, j \in 0..(k - 1) :
                /\ i < j
                /\ yielded[n][3 + Len(call.rest)]
                     = "-e " \o ToString(i) \o " " \o ToString(j)

\* C9 amended: every pair flag encodes two different indices i and j with
\* 0 <= i, j < pathwayCount of the job's file; i < j in epistasis mode, while
\* in tp53 mode i is the index of "Cycle" and j that of "Damage", in either
\* order.
C9_PairInRange ==
    \A n \in 1..Len(yielded) :
        PairMode(call) =>
            LET shape == ShapeAt(call, trace[n].pos)
                k == pathwayCount(shape)
            IN  \E i, j \in 0..(k - 1) :
                /\ i # j
                /\ IF call.epistasis THEN i < j
                   ELSE FirstAt(shape.pathway, "Cycle", i)
                        /\ FirstAt(shape.pathway, "Damage", j)
                /\ yielded[n][3 + Len(call.rest)]
                     = "-e " \o ToString(i) \o " " \o ToString(j)

\* tp53 mode has yielded a job whose pair flag has its larger index first
C9_Witness ==
    /\ call.tp53
    /\ ~call.epistasis
    /\ Len(yielded) >= 3
    /\ \E n \in 1..Len(yielded) : yielded[n][3 + Len(call.rest)] = "-e 1 0"

\* C10: creating the generator reads no file; the file of block (s, f) is
\* read when the consumer holds every job of the blocks before it and asks
\* for the next one, so once per sweep value and never ahead of the block
\* the consumer has reached.
C10_LazyReads ==
    /\ gen.state \in {"absent", "created"} => reads = <<>>
    /\ ~PairMode(call) => reads = <<>>
    /\ \A n \in 1..Len(reads) :
        /\ reads[n].received = JobsBefore(call, reads[n].s, reads[n].pos)
        /\ reads[n].received <= Len(yielded)
        /\ ~BlockBefore(call.begin + gen.si, gen.fi, reads[n].s, reads[n].pos)
        /\ \A m \in 1..Len(reads) :
            (reads[m].s = reads[n].s /\ reads[m].pos = reads[n].pos) => m = n
    /\ (gen.state = "finished" /\ raised = <<>> /\ PairMode(call))
        => Len(reads) = SweepSize(call) * Len(call.infiles)

\* one file has been read for a second sweep value, after jobs were yielded,
\* and the consumer has not reached the end
C10_Witness ==
    /\ gen.state = "suspended"
    /\ \E n, m \in 1..Len(reads) :
        /\ reads[n].file = reads[m].file
        /\ reads[n].s < reads[m].s
        /\ reads[m].received >= 2

====
